---- MODULE Spec2Model ----
(***************************************************************************)
(* Lifecycle controller of the Minecraft server instance.                  *)
(*                                                                         *)
(*   aws/scripts/monitor_activity.py     the activity monitor: samples the *)
(*       player count once a minute, publishes it, and tags and stops the  *)
(*       instance after INACTIVITY_SHUTDOWN_MINUTES without players.       *)
(*   aws/lambda/stopped_instance_check.py  the sweeper: lists the stopped  *)
(*       instances that carry a StopTime tag and terminates those stopped  *)
(*       for TERMINATE_AFTER_DAYS whole days or more.                      *)
(*                                                                         *)
(* Time is counted in seconds (datetime.now(timezone.utc)).  A StopTime    *)
(* tag value is a string; it is modelled by what datetime.fromisoformat    *)
(* makes of it: text that does not parse, an instant without UTC offset,   *)
(* or an instant with an offset.                                           *)
(***************************************************************************)
EXTENDS Integers, Sequences, FiniteSets, TLC

VARIABLES
    now,                 \* wall clock, seconds (datetime.now(timezone.utc))
    inst_state,          \* EC2: instance id -> "running" | "stopped" | "terminated"
    tags,                \* EC2: instance id -> value of the StopTime tag, or NoTag
    \* ---- monitor_activity.main
    mpc,                 \* position of main()
    exit_code,           \* process exit status, NoCode while running
    inactivity_timeout,  \* int(config['INACTIVITY_SHUTDOWN_MINUTES'])
    last_active_time,    \* main: last_active_time
    players,             \* main: players (value of the tick's sample)
    current_time,        \* main: current_time
    tick,                \* number of loop iterations started
    \* ---- what the current tick has done (reset when a tick starts)
    sampleRes,           \* "none" | "ok" | "fail"   get_player_count
    metricRes,           \* "none" | "ok" | "fail"   put_cloudwatch_metric
    tagRes,              \* "none" | "ok" | "fail"   create_tags
    stopRes,             \* "none" | "ok" | "fail"   stop_instances
    tickLast,            \* last_active_time when the tick started
    \* ---- what the run has done
    tagWrites,           \* successful create_tags calls of this run
    stopFailures,        \* failed stop_instances calls of this run
    failedSince,         \* sleeps that ended in a failed sample since
                         \* last_active_time was set
    stoppedAt,           \* clock value when stop_instances succeeded, else NoTime
    \* ---- stopped_instance_check.handler
    spc,                 \* position of handler()
    terminate_days,      \* int(os.environ['TERMINATE_AFTER_DAYS'])
    instances,           \* handler: instances (the listing, a snapshot)
    idx,                 \* handler: index of the instance being processed
    stop_time,           \* handler: stop_time of the instance being processed
    summary,             \* handler: termination_summary
    evalLog,             \* instance id -> what the sweep decided for it
    termCall,            \* instance id -> "none" | "ok" | "fail": the outcome
                         \* of terminate_instances in the current sweep
    sweeps,              \* handler invocations started
    error,               \* the exception that has left handler, "none" if none
    termCount,           \* instance id -> successful terminate_instances
                         \* calls over all sweeps
    advances,            \* clock jumps taken while a sweep is in progress
    \* ---- the environment
    goodOnly,            \* TRUE once every sample is 0 and every call succeeds
    dayWaits,            \* day-long waits between invocations so far
    tickLimit            \* iterations of the loop that are followed

monVars == <<mpc, exit_code, inactivity_timeout, last_active_time, players,
             current_time, tick, sampleRes, metricRes, tagRes, stopRes,
             tickLast, tagWrites, stopFailures, failedSince, stoppedAt>>
sweepVars == <<spc, terminate_days, instances, idx, stop_time, summary,
               evalLog, termCall, sweeps, error, termCount>>
envVars == <<goodOnly, dayWaits, tickLimit>>
ec2Vars == <<inst_state, tags>>
vars == <<now, inst_state, tags, mpc, exit_code, inactivity_timeout,
          last_active_time, players, current_time, tick, sampleRes, metricRes,
          tagRes, stopRes, tickLast, tagWrites, stopFailures, spc,
          terminate_days, instances, idx, stop_time, summary, evalLog,
          termCall, sweeps, advances, failedSince, stoppedAt, error,
          termCount, goodOnly, dayWaits, tickLimit>>

-----------------------------------------------------------------------------
(* Program constants *)

SleepSeconds == 60
SecondsPerMinute == 60
SecondsPerDay == 86400

(* Bounds of the model *)

MaxTicks == 12
MaxAdvances == 1
MaxSweeps == 2

MaxSysTicks == 3
MaxDayWaits == 1

(* Inputs *)

\* INACTIVITY_SHUTDOWN_MINUTES of the deployment's .env
InactivityThresholds == {1, 2, 10}
\* "There are X of max Y players online": the X of a tick
PlayerCounts == {0, 2}
\* The instance the monitor runs on, and the other instances of the account
MonitoredId == "i-mc"
InstanceIds == {"i-mc", "i-b"}

\* TERMINATE_AFTER_DAYS of the Lambda's environment
TerminateDaysValues == {0, 1, 2}
\* The clock when the sweeper is invoked, and how long ago the instances it
\* finds were tagged: on either side of one day, and 1 day 20 hours and
\* 2 days 3 hours
SweepStart == 3 * 86400
StopAges == {0, 86400 - 60, 86400, 86400 + 20 * 3600, 2 * 86400 + 3 * 3600}
\* Time that passes between two steps of a sweep
ClockJumps == {60}

\* Time that passes between two invocations of the sweeper
DayJumps == {SecondsPerDay - 60, SecondsPerDay}
\* The StopTime tag of the account's other instance, which is stopped and
\* was not tagged by the monitor: text that does not parse, or an instant
\* without offset
OtherTags == {[kind |-> "bad", t |-> 0], [kind |-> "naive", t |-> 0]}

NoTag == [kind |-> "none", t |-> 0]
None == [kind |-> "none", t |-> 0]
NoCode == -1
NoTime == -1

-----------------------------------------------------------------------------
(* datetime helpers *)

\* datetime.isoformat() of an aware UTC datetime
IsoFormat(t) == [kind |-> "aware", t |-> t]

\* (current_time - last_active_time).total_seconds() / 60 >= inactivity_timeout
\* with both sides scaled by 60 to stay in the integers
InactiveLongEnough_strict(cur, last, timeout) ==
    (cur - last) > timeout * SecondsPerMinute
InactiveLongEnough(cur, last, timeout) ==
    (cur - last) >= timeout * SecondsPerMinute

-----------------------------------------------------------------------------
(* monitor_activity.main *)

MonInit ==
    /\ mpc = "startup"
    /\ exit_code = NoCode
    /\ inactivity_timeout = 0
    /\ last_active_time = NoTime
    /\ players = 0
    /\ current_time = NoTime
    /\ tick = 0
    /\ sampleRes = "none"
    /\ metricRes = "none"
    /\ tagRes = "none"
    /\ stopRes = "none"
    /\ tickLast = NoTime
    /\ tagWrites = 0
    /\ stopFailures = 0
    /\ failedSince = 0
    /\ stoppedAt = NoTime

\* main, lines 192-212 and 248-250: metadata, clients, configuration
Startup ==
    /\ mpc = "startup"
    /\ failedSince' = 0
    /\ \/ \* get_instance_metadata raises MetadataError, or
          \* load_environment_config raises ConfigurationError
          /\ mpc' = "exited"
          /\ exit_code' = 1
          /\ UNCHANGED <<inactivity_timeout, last_active_time, tick>>
       \/ \* int(config['INACTIVITY_SHUTDOWN_MINUTES']) raises ValueError,
          \* which main does not catch: the interpreter ends with status 1
          /\ mpc' = "crashed"
          /\ exit_code' = 1
          /\ UNCHANGED <<inactivity_timeout, last_active_time, tick>>
       \/ \E m \in InactivityThresholds :
            /\ inactivity_timeout' = m
            /\ last_active_time' = now
            /\ mpc' = "sample"
            /\ tick' = 1
            /\ UNCHANGED exit_code
    /\ tickLast' = IF mpc' = "sample" THEN now ELSE tickLast
    /\ UNCHANGED <<now, ec2Vars, players, current_time, sampleRes, metricRes,
                   tagRes, stopRes, tagWrites, stopFailures, sweepVars,
                   advances,
                   stoppedAt, envVars>>

\* line 216: get_player_count returns the count
SampleOk ==
    /\ mpc = "sample"
    /\ \E n \in PlayerCounts : players' = n
    /\ sampleRes' = "ok"
    /\ mpc' = "metric"
    /\ UNCHANGED <<now, ec2Vars, exit_code, inactivity_timeout,
                   last_active_time, current_time, tick, metricRes, tagRes,
                   stopRes, tickLast, tagWrites, stopFailures, sweepVars,
                   advances,
                   failedSince, stoppedAt, envVars>>

\* lines 216, 239-240: get_player_count raises RCONError; the tick ends
SampleFails_asZero ==
    /\ mpc = "sample"
    /\ failedSince' = IF tick = 1 THEN failedSince ELSE failedSince + 1
    /\ sampleRes' = "fail"
    /\ players' = 0
    /\ mpc' = "metric"
    /\ UNCHANGED <<now, ec2Vars, exit_code, inactivity_timeout,
                   last_active_time, current_time, tick, metricRes, tagRes,
                   stopRes, tickLast, tagWrites, stopFailures, sweepVars,
                   advances,
                   stoppedAt, envVars>>
SampleFails ==
    /\ mpc = "sample"
    /\ failedSince' = IF tick = 1 THEN failedSince ELSE failedSince + 1
    /\ sampleRes' = "fail"
    /\ mpc' = "sleep"
    /\ UNCHANGED <<now, ec2Vars, exit_code, inactivity_timeout,
                   last_active_time, players, current_time, tick, metricRes,
                   tagRes, stopRes, tickLast, tagWrites, stopFailures,
                   sweepVars, advances,
                   stoppedAt, envVars>>

\* line 217: put_metric_data succeeds
MetricOk ==
    /\ mpc = "metric"
    /\ metricRes' = "ok"
    /\ mpc' = "eval"
    /\ UNCHANGED <<now, ec2Vars, exit_code, inactivity_timeout,
                   last_active_time, players, current_time, tick, sampleRes,
                   tagRes, stopRes, tickLast, tagWrites, stopFailures,
                   sweepVars, advances,
                   failedSince, stoppedAt, envVars>>

\* lines 155-157, 241-242: put_metric_data raises ClientError, which
\* put_cloudwatch_metric logs and re-raises; main's handler ends the tick
MetricFails ==
    /\ mpc = "metric"
    /\ metricRes' = "fail"
    /\ mpc' = "sleep"
    /\ UNCHANGED <<now, ec2Vars, exit_code, inactivity_timeout,
                   last_active_time, players, current_time, tick, sampleRes,
                   tagRes, stopRes, tickLast, tagWrites, stopFailures,
                   sweepVars, advances,
                   failedSince, stoppedAt, envVars>>

\* lines 219-237: the evaluation of the sample
Evaluate ==
    /\ mpc = "eval"
    /\ failedSince' = IF players > 0 THEN 0 ELSE failedSince
    /\ current_time' = now
    /\ IF players > 0
         THEN /\ last_active_time' = now
              /\ mpc' = "sleep"
         ELSE /\ UNCHANGED last_active_time
              /\ mpc' = IF InactiveLongEnough(now, last_active_time,
                                              inactivity_timeout)
                          THEN "tag" ELSE "sleep"
    /\ UNCHANGED <<now, ec2Vars, exit_code, inactivity_timeout, players, tick,
                   sampleRes, metricRes, tagRes, stopRes, tickLast, tagWrites,
                   stopFailures, sweepVars, advances,
                   stoppedAt, envVars>>

\* stop_instance, lines 172-178: create_tags
TagOk_keepExisting ==
    /\ mpc = "tag"
    /\ tags' = [tags EXCEPT ![MonitoredId] =
                   IF @ = NoTag THEN IsoFormat(now) ELSE @]
    /\ tagRes' = "ok"
    /\ tagWrites' = tagWrites + 1
    /\ mpc' = "stop"
    /\ UNCHANGED <<now, inst_state, exit_code, inactivity_timeout,
                   last_active_time, players, current_time, tick, sampleRes,
                   metricRes, stopRes, tickLast, stopFailures, sweepVars,
                   advances,
                   failedSince, stoppedAt, envVars>>
TagOk ==
    /\ mpc = "tag"
    /\ tags' = [tags EXCEPT ![MonitoredId] = IsoFormat(now)]
    /\ tagRes' = "ok"
    /\ tagWrites' = tagWrites + 1
    /\ mpc' = "stop"
    /\ UNCHANGED <<now, inst_state, exit_code, inactivity_timeout,
                   last_active_time, players, current_time, tick, sampleRes,
                   metricRes, stopRes, tickLast, stopFailures, sweepVars,
                   advances,
                   failedSince, stoppedAt, envVars>>

\* stop_instance, lines 182-184, and main, lines 241-242: create_tags raises
TagFails ==
    /\ mpc = "tag"
    /\ tagRes' = "fail"
    /\ mpc' = "sleep"
    /\ UNCHANGED <<now, ec2Vars, exit_code, inactivity_timeout,
                   last_active_time, players, current_time, tick, sampleRes,
                   metricRes, stopRes, tickLast, tagWrites, stopFailures,
                   sweepVars, advances,
                   failedSince, stoppedAt, envVars>>

\* stop_instance, lines 180-181, and main, lines 237 and 252
StopOk_noBreak ==
    /\ mpc = "stop"
    /\ stoppedAt' = now
    /\ inst_state' = [inst_state EXCEPT ![MonitoredId] =
                         IF @ = "running" THEN "stopped" ELSE @]
    /\ stopRes' = "ok"
    /\ mpc' = "sleep"
    /\ UNCHANGED exit_code
    /\ UNCHANGED <<now, tags, inactivity_timeout, last_active_time, players,
                   current_time, tick, sampleRes, metricRes, tagRes, tickLast,
                   tagWrites, stopFailures, sweepVars, advances,
                   failedSince, envVars>>
StopOk ==
    /\ mpc = "stop"
    /\ stoppedAt' = now
    /\ inst_state' = [inst_state EXCEPT ![MonitoredId] =
                         IF @ = "running" THEN "stopped" ELSE @]
    /\ stopRes' = "ok"
    /\ mpc' = "exited"
    /\ exit_code' = 0
    /\ UNCHANGED <<now, tags, inactivity_timeout, last_active_time, players,
                   current_time, tick, sampleRes, metricRes, tagRes, tickLast,
                   tagWrites, stopFailures, sweepVars, advances,
                   failedSince, envVars>>

\* stop_instance, lines 182-184, and main, lines 241-242: stop_instances
\* raises ClientError; stop_instance re-raises, main logs and goes on
StopFails ==
    /\ mpc = "stop"
    /\ stopRes' = "fail"
    /\ stopFailures' = stopFailures + 1
    /\ mpc' = "sleep"
    /\ UNCHANGED <<now, ec2Vars, exit_code, inactivity_timeout,
                   last_active_time, players, current_time, tick, sampleRes,
                   metricRes, tagRes, tickLast, tagWrites, sweepVars,
                   advances,
                   failedSince, stoppedAt, envVars>>

\* line 246: time.sleep(60), then the next iteration of while True
Sleep ==
    /\ mpc = "sleep"
    /\ tick < tickLimit
    /\ now' = now + SleepSeconds
    /\ tick' = tick + 1
    /\ mpc' = "sample"
    /\ sampleRes' = "none"
    /\ metricRes' = "none"
    /\ tagRes' = "none"
    /\ stopRes' = "none"
    /\ tickLast' = last_active_time
    \* players and current_time are assigned again before they are read
    /\ players' = 0
    /\ current_time' = NoTime
    /\ UNCHANGED <<ec2Vars, exit_code, inactivity_timeout, last_active_time,
                   tagWrites, stopFailures, sweepVars, advances,
                   failedSince, stoppedAt, envVars>>

MonNext ==
    \/ Startup
    \/ SampleOk
    \/ SampleFails
    \/ MetricOk
    \/ MetricFails
    \/ Evaluate
    \/ TagOk
    \/ TagFails
    \/ StopOk
    \/ StopFails
    \/ Sleep

-----------------------------------------------------------------------------
(* monitor_activity.main in an environment that turns good: from some point
   on every sample is 0 and every call succeeds *)

\* The environment turns good at the start of a tick, while the iterations
\* that are followed reach the end of the inactivity window
SwitchGood ==
    /\ ~goodOnly
    /\ mpc = "sample"
    /\ last_active_time + inactivity_timeout * SecondsPerMinute
          <= now + (tickLimit - tick) * SleepSeconds
    /\ goodOnly' = TRUE
    /\ UNCHANGED <<now, ec2Vars, monVars, sweepVars, advances, dayWaits,
                   tickLimit>>

LiveSampleOk == SampleOk /\ (goodOnly => players' = 0)
LiveSampleFails == ~goodOnly /\ SampleFails
LiveMetricFails == ~goodOnly /\ MetricFails
LiveTagFails == ~goodOnly /\ TagFails
LiveStopFails == ~goodOnly /\ StopFails

LiveNext ==
    \/ Startup
    \/ LiveSampleOk
    \/ LiveSampleFails
    \/ MetricOk
    \/ LiveMetricFails
    \/ Evaluate
    \/ TagOk
    \/ LiveTagFails
    \/ StopOk
    \/ LiveStopFails
    \/ Sleep
    \/ SwitchGood

-----------------------------------------------------------------------------
(* stopped_instance_check *)

\* datetime.fromisoformat(tag['Value']): ValueError for text that is no ISO
\* date, a naive datetime for an instant without offset, else an aware one
FromIsoFormat(v) == IF v.kind = "bad" THEN [kind |-> "ValueError", t |-> 0]
                                      ELSE v

\* get_stop_time_from_tags, lines 26-46; tagv is the StopTime entry of the
\* instance's Tags, NoTag when there is none
GetStopTimeFromTags_epoch(tagv) ==
    IF tagv = NoTag THEN None
    ELSE IF FromIsoFormat(tagv).kind = "ValueError"
           THEN [kind |-> "aware", t |-> 0]
           ELSE FromIsoFormat(tagv)
GetStopTimeFromTags(tagv) ==
    IF tagv = NoTag THEN None
    ELSE IF FromIsoFormat(tagv).kind = "ValueError" THEN None
         ELSE FromIsoFormat(tagv)

\* timedelta.days of (a - b): whole days, rounded down
DaysBetween(a, b) == (a - b) \div SecondsPerDay

\* should_terminate_instance, lines 48-63, at clock value t
ShouldTerminateInstance_strict(st, days, t) ==
    IF st = None THEN FALSE ELSE DaysBetween(t, st.t) > days
ShouldTerminateInstance(st, days, t) ==
    IF st = None THEN FALSE ELSE DaysBetween(t, st.t) >= days

\* describe_instances with the filters of lines 99-102
MatchesFilters_stateOnly(i) == inst_state[i] = "stopped"
MatchesFilters_tagOnly(i) == tags[i] # NoTag
MatchesFilters(i) == inst_state[i] = "stopped" /\ tags[i] # NoTag

\* The orders in which describe_instances may return the set S
Orderings(S) ==
    {f \in [1..Cardinality(S) -> S] : \A a, b \in 1..Cardinality(S) :
                                          f[a] = f[b] => a = b}

NoEval == [res |-> "none", at |-> NoTime]

\* Where handler goes after the instance at index k
AfterInstance(k) == IF k >= Len(instances) THEN "done" ELSE "loop"

\* handler, lines 123-134, with a default threshold when the setting is bad
HandlerStart_defaultDays ==
    /\ spc = "idle"
    /\ sweeps < MaxSweeps
    /\ sweeps' = sweeps + 1
    /\ \/ \E d \in TerminateDaysValues :
            /\ terminate_days' = d
            /\ spc' = "list"
            /\ error' = "none"
       \/ /\ spc' = "list"
          /\ error' = "ValueError"
          /\ terminate_days' = 0
    /\ instances' = <<>>
    /\ idx' = 0
    /\ stop_time' = None
    /\ summary' = [terminated_instances |-> <<>>,
                   failed_terminations |-> <<>>,
                   checked_instances |-> 0]
    /\ evalLog' = [i \in InstanceIds |-> NoEval]
    /\ termCall' = [i \in InstanceIds |-> "none"]
    /\ UNCHANGED <<now, ec2Vars, monVars, advances,
                   termCount, envVars>>
\* handler, lines 123-134
HandlerStart ==
    /\ spc = "idle"
    /\ sweeps < MaxSweeps
    /\ sweeps' = sweeps + 1
    /\ \/ \E d \in TerminateDaysValues :
            /\ terminate_days' = d
            /\ spc' = "list"
            /\ error' = "none"
       \/ \* KeyError or ValueError, re-raised as ValueError (lines 125-127)
          /\ spc' = "raised"
          /\ error' = "ValueError"
          /\ UNCHANGED terminate_days
    /\ instances' = <<>>
    /\ idx' = 0
    /\ stop_time' = None
    /\ summary' = [terminated_instances |-> <<>>,
                   failed_terminations |-> <<>>,
                   checked_instances |-> 0]
    /\ evalLog' = [i \in InstanceIds |-> NoEval]
    /\ termCall' = [i \in InstanceIds |-> "none"]
    /\ UNCHANGED <<now, ec2Vars, monVars, advances,
                   termCount, envVars>>

\* handler, lines 137-138, and get_stopped_instances, lines 97-107
ListOk ==
    /\ spc = "list"
    /\ \E order \in Orderings({i \in InstanceIds : MatchesFilters(i)}) :
          instances' = [k \in DOMAIN order |->
                           [InstanceId |-> order[k], StopTime |-> tags[order[k]]]]
    /\ summary' = [summary EXCEPT !.checked_instances = Len(instances')]
    /\ idx' = 1
    /\ spc' = IF Len(instances') = 0 THEN "done" ELSE "loop"
    /\ UNCHANGED <<now, ec2Vars, monVars, terminate_days, stop_time, evalLog,
                   termCall, sweeps, advances,
                   error, termCount, envVars>>

\* get_stopped_instances, lines 108-110, and handler, lines 166-168
ListFails ==
    /\ spc = "list"
    /\ error' = "ClientError"
    /\ spc' = "raised"
    /\ UNCHANGED <<now, ec2Vars, monVars, terminate_days, instances, idx,
                   stop_time, summary, evalLog, termCall, sweeps, advances,
                   termCount, envVars>>

\* handler, lines 140-149: no valid StopTime, the instance is skipped
ParseSkip ==
    /\ spc = "loop"
    /\ GetStopTimeFromTags(instances[idx].StopTime) = None
    /\ stop_time' = None
    /\ evalLog' = [evalLog EXCEPT ![instances[idx].InstanceId] =
                      [res |-> "skipped", at |-> now]]
    /\ spc' = AfterInstance(idx)
    /\ idx' = idx + 1
    /\ UNCHANGED <<now, ec2Vars, monVars, terminate_days, instances, summary,
                   termCall, sweeps, advances,
                   error, termCount, envVars>>

\* handler, lines 140-156, for an aware stop_time: days_stopped is logged
ParseAware ==
    /\ spc = "loop"
    /\ GetStopTimeFromTags(instances[idx].StopTime).kind = "aware"
    /\ stop_time' = GetStopTimeFromTags(instances[idx].StopTime)
    /\ spc' = "decide"
    /\ UNCHANGED <<now, ec2Vars, monVars, terminate_days, instances, idx,
                   summary, evalLog, termCall, sweeps, advances,
                   error, termCount, envVars>>

\* handler, line 151, for a naive stop_time: subtracting it from an aware
\* datetime raises TypeError, which nothing in handler catches
ParseNaive ==
    /\ spc = "loop"
    /\ error' = "TypeError"
    /\ GetStopTimeFromTags(instances[idx].StopTime).kind = "naive"
    /\ stop_time' = GetStopTimeFromTags(instances[idx].StopTime)
    /\ evalLog' = [evalLog EXCEPT ![instances[idx].InstanceId] =
                      [res |-> "TypeError", at |-> now]]
    /\ spc' = "raised"
    /\ UNCHANGED <<now, ec2Vars, monVars, terminate_days, instances, idx,
                   summary, termCall, sweeps, advances,
                   termCount, envVars>>

\* handler, line 158, and should_terminate_instance
Decide ==
    /\ spc = "decide"
    /\ IF ShouldTerminateInstance(stop_time, terminate_days, now)
         THEN /\ evalLog' = [evalLog EXCEPT ![instances[idx].InstanceId] =
                                [res |-> "due", at |-> now]]
              /\ spc' = "terminate"
              /\ UNCHANGED idx
         ELSE /\ evalLog' = [evalLog EXCEPT ![instances[idx].InstanceId] =
                                [res |-> "kept", at |-> now]]
              /\ spc' = AfterInstance(idx)
              /\ idx' = idx + 1
    /\ UNCHANGED <<now, ec2Vars, monVars, terminate_days, instances,
                   stop_time, summary, termCall, sweeps, advances,
                   error, termCount, envVars>>

\* handler, lines 160-161, and terminate_instance, lines 76-78
TerminateOk ==
    /\ spc = "terminate"
    /\ termCount' = [termCount EXCEPT ![instances[idx].InstanceId] = @ + 1]
    /\ inst_state' = [inst_state EXCEPT ![instances[idx].InstanceId] =
                         "terminated"]
    /\ termCall' = [termCall EXCEPT ![instances[idx].InstanceId] = "ok"]
    /\ summary' = [summary EXCEPT !.terminated_instances =
                      Append(@, instances[idx].InstanceId)]
    /\ spc' = AfterInstance(idx)
    /\ idx' = idx + 1
    /\ UNCHANGED <<now, tags, monVars, terminate_days, instances, stop_time,
                   evalLog, sweeps, advances,
                   error, envVars>>

\* terminate_instance, lines 79-82, and handler, lines 162-164
TerminateFails_abort ==
    /\ spc = "terminate"
    /\ error' = "InstanceTerminationError"
    /\ termCall' = [termCall EXCEPT ![instances[idx].InstanceId] = "fail"]
    /\ spc' = "raised"
    /\ UNCHANGED <<now, ec2Vars, monVars, terminate_days, instances, idx,
                   stop_time, summary, evalLog, sweeps, advances,
                   termCount, envVars>>
TerminateFails ==
    /\ spc = "terminate"
    /\ termCall' = [termCall EXCEPT ![instances[idx].InstanceId] = "fail"]
    /\ summary' = [summary EXCEPT !.failed_terminations =
                      Append(@, instances[idx].InstanceId)]
    /\ spc' = AfterInstance(idx)
    /\ idx' = idx + 1
    /\ UNCHANGED <<now, ec2Vars, monVars, terminate_days, instances,
                   stop_time, evalLog, sweeps, advances,
                   error, termCount, envVars>>

\* handler, lines 170-171 (the summary is returned) or the exception has left
\* handler: the invocation is over
HandlerEnd ==
    /\ spc \in {"done", "raised"}
    /\ sweeps < MaxSweeps
    /\ spc' = "idle"
    /\ UNCHANGED <<now, ec2Vars, monVars, terminate_days, instances, idx,
                   stop_time, summary, evalLog, termCall, sweeps, advances,
                   error, termCount, envVars>>

\* The clock moves on between two steps of a sweep
ClockAdvance ==
    /\ spc \in {"list", "loop", "decide", "terminate"}
    /\ advances < MaxAdvances
    /\ advances' = advances + 1
    /\ \E d \in ClockJumps : now' = now + d
    /\ UNCHANGED <<ec2Vars, monVars, sweepVars,
                   envVars>>

\* stop_instance, lines 170-181: time passes between the evaluation of
\* datetime.now for the tag and the stop_instances call
TagToStopDelay ==
    /\ mpc = "stop"
    /\ advances < MaxAdvances
    /\ advances' = advances + 1
    /\ \E d \in ClockJumps : now' = now + d
    /\ UNCHANGED <<ec2Vars, monVars, sweepVars, envVars>>

\* Time passes between two invocations of the sweeper, the monitor having
\* ended
DayPasses ==
    /\ spc = "idle"
    /\ mpc \in {"exited", "crashed"}
    /\ sweeps < MaxSweeps
    /\ dayWaits < MaxDayWaits
    /\ dayWaits' = dayWaits + 1
    /\ \E d \in DayJumps : now' = now + d
    /\ UNCHANGED <<ec2Vars, monVars, sweepVars, advances, goodOnly,
                   tickLimit>>

SweepNext ==
    \/ HandlerStart
    \/ ListOk
    \/ ListFails
    \/ ParseSkip
    \/ ParseAware
    \/ ParseNaive
    \/ Decide
    \/ TerminateOk
    \/ TerminateFails
    \/ HandlerEnd
    \/ ClockAdvance

-----------------------------------------------------------------------------
(* Specifications *)

SweepIdle ==
    /\ spc = "idle"
    /\ terminate_days = 0
    /\ instances = <<>>
    /\ idx = 0
    /\ stop_time = None
    /\ summary = [terminated_instances |-> <<>>,
                  failed_terminations |-> <<>>,
                  checked_instances |-> 0]
    /\ evalLog = [i \in InstanceIds |-> NoEval]
    /\ termCall = [i \in InstanceIds |-> "none"]
    /\ sweeps = 0
    /\ error = "none"
    /\ termCount = [i \in InstanceIds |-> 0]

\* The monitor alone, on a running instance without a StopTime tag
MonitorInit ==
    /\ now = 0
    /\ inst_state = [i \in InstanceIds |-> "running"]
    /\ tags = [i \in InstanceIds |-> NoTag]
    /\ advances = 0
    /\ goodOnly = FALSE
    /\ dayWaits = 0
    /\ tickLimit = MaxTicks
    /\ MonInit
    /\ SweepIdle

MonitorSpec == MonitorInit /\ [][MonNext]_vars

\* The StopTime tag values an instance of the account may carry
TagValues ==
    {NoTag, [kind |-> "bad", t |-> 0]}
        \cup {[kind |-> k, t |-> SweepStart - a] :
                 k \in {"naive", "aware"}, a \in StopAges}

\* The sweeper alone, over any instances the account may hold
SweepInit ==
    /\ now = SweepStart
    /\ inst_state \in [InstanceIds -> {"running", "stopped", "terminated"}]
    /\ tags \in [InstanceIds -> TagValues]
    /\ advances = 0
    /\ goodOnly = FALSE
    /\ dayWaits = 0
    /\ tickLimit = MaxTicks
    /\ MonInit
    /\ SweepIdle

SweepSpec == SweepInit /\ [][SweepNext]_vars

\* The monitor alone; the process is never suspended for ever, so a step
\* of main that can be taken is taken
LiveSpec == MonitorInit /\ [][LiveNext]_vars /\ WF_vars(LiveNext)

\* The monitor on its instance and the sweeper over the account, whose other
\* instance is stopped and tagged; their steps interleave in any order
SystemInit ==
    /\ now = 0
    /\ inst_state = [i \in InstanceIds |->
                        IF i = MonitoredId THEN "running" ELSE "stopped"]
    /\ \E v \in OtherTags :
          tags = [i \in InstanceIds |-> IF i = MonitoredId THEN NoTag ELSE v]
    /\ advances = 0
    /\ goodOnly = FALSE
    /\ dayWaits = 0
    /\ tickLimit = MaxSysTicks
    /\ MonInit
    /\ SweepIdle

SystemNext ==
    \/ MonNext
    \/ SweepNext
    \/ TagToStopDelay
    \/ DayPasses

SystemSpec == SystemInit /\ [][SystemNext]_vars

-----------------------------------------------------------------------------
(* Claims about the monitor, checked under MonitorSpec *)

\* A tick has ended: the loop is at time.sleep(60) or main has returned 0
TickEnded == mpc = "sleep" \/ (mpc = "exited" /\ exit_code = 0)

\* stop_instance was entered in the current tick (create_tags was called)
SuspensionEntered == tagRes # "none"

\* C1: in every tick that obtained a sample, suspension (the tag write and
\* then the stop action) is entered if and only if the inactivity window,
\* now minus last-active, has reached the threshold.
C1_SuspendIffWindowReached ==
    (TickEnded /\ sampleRes = "ok") =>
        (SuspensionEntered <=>
            InactiveLongEnough(now, last_active_time, inactivity_timeout))

\* C2: within one monitor run the StopTime tag is written at most once.
C2_TagWrittenAtMostOnce == tagWrites <= 1

\* C3: once the stop action has failed after the tag write, the run takes no
\* further sample, publishes no metric, writes no tag and issues no stop.
C3_StopFailureEndsRun ==
    stopFailures > 0 => mpc \notin {"sample", "metric", "eval", "tag", "stop"}

\* C8: at the end of a tick whose sample is positive the last-active
\* timestamp is the tick's time; at the end of a tick whose sample is zero
\* it is what it was when the tick started.
C8_LastActiveFollowsSample ==
    (TickEnded /\ sampleRes = "ok") =>
        IF players > 0 THEN last_active_time = now
                       ELSE last_active_time = tickLast

\* C9: a tick whose metric publish failed still sets last-active for a
\* positive sample and still enters suspension for a zero sample whose
\* window has reached the threshold.
C9_MetricFailureChangesNothing ==
    (TickEnded /\ metricRes = "fail") =>
        /\ players > 0 => last_active_time = now
        /\ (players = 0 /\ InactiveLongEnough(now, last_active_time,
                                              inactivity_timeout))
              => SuspensionEntered

\* C10: a tick whose sample failed leaves last-active as it was, publishes
\* nothing, writes no tag, issues no stop and goes on to the sleep before the
\* next tick; the tag write and the stop are only ever issued in a tick whose
\* sample succeeded with count 0.
C10_FailedSampleIsInert ==
    /\ sampleRes = "fail" =>
          /\ last_active_time = tickLast
          /\ metricRes = "none"
          /\ tagRes = "none"
          /\ stopRes = "none"
          /\ mpc = "sleep"
          /\ exit_code = NoCode
    /\ (tagRes # "none" \/ stopRes # "none") =>
          (sampleRes = "ok" /\ players = 0)

\* C10 witness: a failed sample in a tick whose window has reached the
\* threshold, after an earlier tick of the same run
C10_Witness ==
    /\ sampleRes = "fail"
    /\ mpc = "sleep"
    /\ tick >= 2
    /\ InactiveLongEnough(now, last_active_time, inactivity_timeout)

-----------------------------------------------------------------------------
(* Claims about the sweeper, checked under SweepSpec *)

InSeq(x, s) == \E k \in 1..Len(s) : s[k] = x

\* The indices of the listing the sweep has finished with
Processed(k) == k \in 1..Len(instances) /\ idx > k

\* C4: the listing holds no instance without a StopTime tag, terminate is
\* never called for an instance without the tag, whatever its state and the
\* threshold, and an instance the sweep skipped is not terminated.
C4_NoTerminateWithoutTag ==
    /\ \A k \in 1..Len(instances) :
          /\ instances[k].StopTime # NoTag
          /\ tags[instances[k].InstanceId] # NoTag
    /\ \A i \in InstanceIds :
          /\ tags[i] = NoTag => (termCall[i] = "none" /\ ~InSeq(i, summary.terminated_instances))
          /\ evalLog[i].res = "skipped" => termCall[i] = "none"

\* C4 witness: a sweep with threshold 0 has terminated an instance and has
\* returned while a stopped instance without the tag is left alone
C4_Witness ==
    /\ spc = "done"
    /\ terminate_days = 0
    /\ \E i, j \in InstanceIds :
          /\ tags[i] = NoTag
          /\ inst_state[i] = "stopped"
          /\ termCall[j] = "ok"

\* C5: by the end of a sweep, terminate has been called for a listed
\* instance with a parseable StopTime (with or without offset) if and only
\* if it has been stopped for the threshold in whole days: called when it
\* had been when the sweep started, and only when it has been by now.
C5_TerminateIffWholeDays ==
    (spc \in {"done", "raised"}) =>
        \A k \in 1..Len(instances) :
            LET i == instances[k].InstanceId
                t == instances[k].StopTime.t
            IN  instances[k].StopTime.kind \in {"naive", "aware"} =>
                  /\ (SweepStart - t) >= terminate_days * SecondsPerDay
                        => termCall[i] # "none"
                  /\ termCall[i] # "none"
                        => (now - t) >= terminate_days * SecondsPerDay

\* What the sweep decides for the instances it evaluates is the whole-day
\* rule of C5 (the part of C5 the code does keep)
DecisionIsWholeDays ==
    \A k \in 1..Len(instances) :
        LET i == instances[k].InstanceId
            e == evalLog[i]
        IN  /\ e.res \in {"kept", "due"} =>
                 ((e.res = "due") <=>
                     (e.at - instances[k].StopTime.t
                         >= terminate_days * SecondsPerDay))
            /\ termCall[i] # "none" => e.res = "due"
            /\ (e.res = "due" /\ Processed(k)) => termCall[i] # "none"

\* C6: an instance whose terminate failed is in failed_terminations and not
\* in terminated_instances; whatever failed before, terminate has been
\* called for every instance the sweep found due and has finished with; and
\* the sweep is never left by an exception at an instance whose terminate
\* failed (it goes on and returns its summary).
C6_TerminateFailureIsolated ==
    /\ \A i \in InstanceIds :
          termCall[i] = "fail" =>
             /\ InSeq(i, summary.failed_terminations)
             /\ ~InSeq(i, summary.terminated_instances)
    /\ \A k \in 1..Len(instances) :
          (Processed(k) /\ evalLog[instances[k].InstanceId].res = "due")
             => termCall[instances[k].InstanceId] # "none"
    /\ (spc = "raised" /\ idx \in 1..Len(instances))
          => termCall[instances[idx].InstanceId] = "none"
    /\ (spc = "done" /\ Len(instances) > 0) => idx = Len(instances) + 1

\* C6 witness: the sweep has returned, the terminate of the first listed
\* instance failed and the second one was terminated
C6_Witness ==
    /\ spc = "done"
    /\ Len(instances) = 2
    /\ termCall[instances[1].InstanceId] = "fail"
    /\ termCall[instances[2].InstanceId] = "ok"
    /\ inst_state[instances[2].InstanceId] = "terminated"
    /\ summary.failed_terminations = <<instances[1].InstanceId>>
    /\ summary.terminated_instances = <<instances[2].InstanceId>>

\* C7: a listed instance whose StopTime does not parse is never terminated
\* (terminate is not called, it stays stopped), the sweep is not left by an
\* exception at it, and the sweep goes on past it.
C7_UnparseableIsSkipped ==
    \A k \in 1..Len(instances) :
        LET i == instances[k].InstanceId
        IN  instances[k].StopTime.kind = "bad" =>
              /\ termCall[i] = "none"
              /\ inst_state[i] = "stopped"
              /\ ~InSeq(i, summary.terminated_instances)
              /\ ~InSeq(i, summary.failed_terminations)
              /\ idx = k => spc = "loop"
              /\ idx > k => evalLog[i].res = "skipped"

\* C7 witness: the sweep has returned, the first listed instance had an
\* unparseable StopTime and the one after it was terminated
C7_Witness ==
    /\ spc = "done"
    /\ Len(instances) = 2
    /\ instances[1].StopTime.kind = "bad"
    /\ evalLog[instances[1].InstanceId].res = "skipped"
    /\ termCall[instances[2].InstanceId] = "ok"

-----------------------------------------------------------------------------
(* Further claims about the sweeper, checked under SweepSpec *)

\* The instance id is one of the listing
Listed(i) == \E k \in 1..Len(instances) : instances[k].InstanceId = i

\* The instance was tagged, with a UTC offset, age seconds before SweepStart
TaggedAgo(i, age) == \E k \in 1..Len(instances) :
                        /\ instances[k].InstanceId = i
                        /\ instances[k].StopTime = IsoFormat(SweepStart - age)

\* C14: the summary of a sweep is exact: checked_instances is the length of
\* the listing; terminated_instances holds exactly the instances whose
\* terminate call succeeded and failed_terminations exactly those whose
\* terminate call failed, each once; the two lists are disjoint and hold
\* only listed instances.  With TERMINATE_AFTER_DAYS = 2, A stopped 1 day
\* 20 hours ago and B stopped 2 days 3 hours ago, and no failed call, the
\* summary is checked 2, terminated [B], failed [].
C14_SummaryExact ==
    /\ summary.checked_instances = Len(instances)
    /\ \A i \in InstanceIds :
          /\ InSeq(i, summary.terminated_instances) <=> termCall[i] = "ok"
          /\ InSeq(i, summary.failed_terminations) <=> termCall[i] = "fail"
          /\ termCall[i] # "none" => Listed(i)
          /\ Listed(i) => (inst_state[i] = "terminated"
                              <=> InSeq(i, summary.terminated_instances))
    /\ Len(summary.terminated_instances) + Len(summary.failed_terminations)
          <= Len(instances)
    /\ \A a, b \in InstanceIds :
          (/\ spc = "done"
           /\ terminate_days = 2
           /\ a # b
           /\ TaggedAgo(a, 86400 + 20 * 3600)
           /\ TaggedAgo(b, 2 * 86400 + 3 * 3600)
           /\ termCall[b] # "fail")
          => summary = [terminated_instances |-> <<b>>,
                        failed_terminations |-> <<>>,
                        checked_instances |-> 2]

C14_Witness ==
    /\ spc = "done"
    /\ terminate_days = 2
    /\ TaggedAgo("i-mc", 86400 + 20 * 3600)
    /\ TaggedAgo("i-b", 2 * 86400 + 3 * 3600)
    /\ summary = [terminated_instances |-> <<"i-b">>,
                  failed_terminations |-> <<>>,
                  checked_instances |-> 2]

\* C15: termination happens at most once and is final: an instance that an
\* earlier sweep terminated is not in the listing of a later sweep, no
\* terminate call succeeds twice for one instance, and a terminated instance
\* stays terminated.
C15_TerminatedOnce ==
    /\ [](\A i \in InstanceIds :
            /\ termCount[i] <= 1
            /\ (termCount[i] = 1 /\ termCall[i] # "ok") => ~Listed(i)
            /\ (Listed(i) /\ inst_state[i] = "terminated")
                  => termCall[i] = "ok")
    /\ [][\A i \in InstanceIds :
            inst_state[i] = "terminated" => inst_state'[i] = "terminated"]_vars

C15_Witness ==
    /\ sweeps = 2
    /\ spc = "done"
    /\ Len(instances) = 1
    /\ \E i \in InstanceIds :
          /\ termCount[i] = 1
          /\ termCall[i] = "none"
          /\ ~Listed(i)
          /\ tags[i] # NoTag

\* C17: no problem with one instance leaves handler as an exception: an
\* exception leaves handler only before the listing exists (configuration,
\* describe_instances), whatever the StopTime values and terminate outcomes.
C17_PerInstanceProblemsContained ==
    error # "none" => Len(instances) = 0

-----------------------------------------------------------------------------
(* Further claims about the monitor, checked under MonitorSpec *)

\* C12: the stop action is only issued in a tick whose tag write succeeded;
\* when it has succeeded the instance is stopped and main has returned 0,
\* and from then on the monitor changes nothing: no tick, no sample, no tag
\* write, no second stop. main returns 0 only after a successful stop.
C12_OrderedOneShot ==
    /\ [](/\ stopRes # "none" => tagRes = "ok"
          /\ stopRes = "ok" => /\ mpc = "exited"
                               /\ exit_code = 0
                               /\ inst_state[MonitoredId] = "stopped"
          /\ exit_code = 0 => stopRes = "ok")
    /\ [][stopRes = "ok" => UNCHANGED <<monVars, ec2Vars>>]_vars

\* C12 witness: the stop has succeeded after an earlier stop had failed
C12_Witness ==
    /\ stopRes = "ok"
    /\ tagRes = "ok"
    /\ stopFailures > 0
    /\ exit_code = 0

\* C18: when suspension is entered, the inactivity window without the time
\* spent in ticks whose sample failed has reached the threshold.
C18_FailedTicksNotCounted ==
    SuspensionEntered =>
        (now - last_active_time) - failedSince * SleepSeconds
            >= inactivity_timeout * SecondsPerMinute

\* C20: when the stop action has succeeded, the StopTime tag holds the
\* timestamp written in the tick of that stop: not earlier than the tick's
\* current_time and not later than the stop.
C20_TagIsFromStopTick ==
    stopRes = "ok" =>
        /\ tagRes = "ok"
        /\ tags[MonitoredId].kind = "aware"
        /\ current_time # NoTime
        /\ current_time <= tags[MonitoredId].t
        /\ tags[MonitoredId].t <= stoppedAt

\* C20 witness: the stop has succeeded in a later tick than a tag write
\* whose stop had failed
C20_Witness ==
    /\ stopRes = "ok"
    /\ stopFailures > 0
    /\ tagWrites >= 2
    /\ tags[MonitoredId] = IsoFormat(now)

-----------------------------------------------------------------------------
(* Liveness of the monitor, checked under LiveSpec *)

\* C19: once every sample is 0 and every call succeeds, the monitor
\* eventually has written the StopTime tag, stopped the instance and returned
\* 0; and a tick whose sample or whose metric publication failed neither
\* enters suspension nor ends the run.
C19_GoodEnvironmentSuspends ==
    /\ goodOnly ~> (/\ mpc = "exited"
                    /\ exit_code = 0
                    /\ tags[MonitoredId] # NoTag
                    /\ inst_state[MonitoredId] = "stopped")
    /\ []((SuspensionEntered \/ exit_code = 0)
              => (sampleRes = "ok" /\ metricRes = "ok"))

C19_Witness ==
    /\ goodOnly
    /\ exit_code = 0
    /\ stopFailures > 0
    /\ inst_state[MonitoredId] = "stopped"

-----------------------------------------------------------------------------
(* Claims about the monitor and the sweeper together, checked under
   SystemSpec *)

\* The sweeper's terminate call succeeds for instance i in this step
Terminates(i) == inst_state[i] # "terminated" /\ inst_state'[i] = "terminated"

\* C11: outside the two calls of stop_instance, the monitored instance
\* carries the StopTime tag if and only if it is stopped as a result of the
\* monitor's stop call (an instance the sweeper has terminated apart).
C11_TagIffSuspendedByMonitor ==
    (mpc # "stop" /\ inst_state[MonitoredId] # "terminated") =>
        (tags[MonitoredId] # NoTag
            <=> (inst_state[MonitoredId] = "stopped" /\ stoppedAt # NoTime))

\* C13: a startup failure of the monitor ends it with a non-zero status
\* before any sample, tag write or stop call, and only a startup failure
\* does; a sweep whose TERMINATE_AFTER_DAYS is missing or malformed lists
\* nothing and terminates nothing.
C13_StartupFailuresAreFatal ==
    /\ []((mpc \in {"exited", "crashed"} /\ tick = 0) =>
             /\ exit_code # 0
             /\ exit_code # NoCode
             /\ sampleRes = "none"
             /\ tagWrites = 0
             /\ stopFailures = 0
             /\ stoppedAt = NoTime
             /\ tags[MonitoredId] = NoTag
             /\ inst_state[MonitoredId] = "running")
    /\ []((exit_code # 0 /\ exit_code # NoCode) => tick = 0)
    /\ [](error = "ValueError" =>
             /\ instances = <<>>
             /\ summary.checked_instances = 0
             /\ \A i \in InstanceIds : termCall[i] = "none")
    /\ [][error' = "ValueError" => UNCHANGED termCount]_vars

C13_Witness ==
    /\ mpc = "crashed"
    /\ exit_code = 1
    /\ error = "ValueError"
    /\ spc = "raised"
    /\ sweeps = 2
    /\ \E i \in InstanceIds : MatchesFilters(i)

\* C16: in every interleaving, the sweeper terminates the monitored instance
\* only when the monitor has stopped it and returned, and only when the time
\* since the stop call succeeded is at least TERMINATE_AFTER_DAYS whole days.
C16_SuspendedForThreshold ==
    [][Terminates(MonitoredId) =>
          /\ inst_state[MonitoredId] = "stopped"
          /\ mpc = "exited"
          /\ stoppedAt # NoTime
          /\ DaysBetween(now, stoppedAt) >= terminate_days]_vars

\* C16, amended: in every interleaving, the sweeper terminates an instance
\* only when it is stopped (for the monitored instance: the monitor has
\* stopped it and returned 0) and only when the time since its StopTime tag
\* was written is at least TERMINATE_AFTER_DAYS whole days; the tag is
\* written before the stop call, so the time the instance has been stopped
\* may be shorter by the time between the two calls.
C16_TaggedForThreshold ==
    [][\A i \in InstanceIds : Terminates(i) =>
          /\ inst_state[i] = "stopped"
          /\ i = MonitoredId => (/\ mpc = "exited"
                                 /\ exit_code = 0
                                 /\ stoppedAt # NoTime
                                 /\ tags[i].t <= stoppedAt)
          /\ tags[i].kind = "aware"
          /\ DaysBetween(now, tags[i].t) >= terminate_days]_vars

C16_Witness ==
    /\ inst_state[MonitoredId] = "terminated"
    /\ termCall[MonitoredId] = "ok"
    /\ terminate_days = 1
    /\ tags[MonitoredId].t < stoppedAt
    /\ DaysBetween(evalLog[MonitoredId].at, tags[MonitoredId].t) = 1
    /\ DaysBetween(now, stoppedAt) = 0

====
